---- MODULE Spec2Model ----
(***************************************************************************)
(* Model of OpenEngine::Utils::SimpleSetup (src/Utils/SimpleSetup.cpp):    *)
(* the facade that builds the engine components, wires them into the       *)
(* engine's event lists and lets the caller replace the scene and the      *)
(* camera at run time.                                                     *)
(*                                                                         *)
(* Objects are identified by tagged pairs: <<"facade", n>> is an object    *)
(* the facade allocated with new, <<"caller", i>> one the caller passed    *)
(* in.  A heap object is named by a number; new takes the smallest number  *)
(* in use by no object and held by no pointer, as an allocator may hand    *)
(* out a freed address again.  A freed Frustum stays in the heap map, as   *)
(* freed, for as long as some scene still holds its node.                  *)
(***************************************************************************)
EXTENDS Integers, Sequences, FiniteSets

\* ---- bounds of the model ----
MaxSetScene == 2
MaxDebug == 2

\* ---- objects ----
DefaultScene == <<"facade", 0>>
NullScene == <<"null", 0>>
CallerScenes == {<<"caller", 1>>}
Scenes == {DefaultScene} \cup CallerScenes
SceneList == <<DefaultScene, <<"caller", 1>>>>

DefaultCamera == <<"facade", 0>>
CallerCameras == {<<"caller", 1>>}

DefaultVolume == <<"facade", 0>>
CallerVolumes == {<<"caller", 1>>}

Dirs == {"data"}
Keys == {"KEY_ESCAPE", "KEY_a"}
KEY_ESCAPE == "KEY_ESCAPE"

LightNode == <<"DirectionalLightNode", 0>>

VARIABLES
    scene,          \* SimpleSetup::scene
    camera,         \* SimpleSetup::camera
    frustum,        \* SimpleSetup::frustum (number of the Frustum object)
    frustums,       \* heap of Frustum objects: cam, alive, clipping
    heapCams,       \* Cameras the facade allocated: camera -> volume
    viewportVol,    \* Viewport's viewing volume: <<"Frustum", n>> or <<"Camera", c>>
    rendererRoot,   \* Renderer's scene root
    sceneNodes,     \* children of each scene root, in AddNode order
    initListeners,  \* engine->InitializeEvent() listeners, attach order
    procListeners,  \* engine->ProcessEvent() listeners
    deinitListeners,\* engine->DeinitializeEvent() listeners
    rInitListeners, \* renderer->InitializeEvent() listeners
    keyListeners,   \* input->KeyEvent() listeners
    dataDirs,       \* the directories on DirectoryManager's search path
    enginePhase,    \* position of the engine's driver loop
    running,        \* engine run flag, cleared by Stop()
    installed,      \* history: the last camera replacement
    setSceneArgs,   \* history: the arguments of the SetScene calls, in order
    lastOp,         \* history: the last operation and its argument
    callTrace       \* history: collaborator calls made by the last operation

vars == <<scene, camera, frustum, frustums, heapCams, viewportVol,
          rendererRoot, sceneNodes, initListeners, procListeners,
          deinitListeners, rInitListeners, keyListeners, dataDirs,
          enginePhase, running, installed, setSceneArgs, lastOp, callTrace>>

\* ---- listeners ----
Frame == <<"frame", "module", DefaultScene>>
RendererL == <<"renderer", "module", DefaultScene>>
Input == <<"input", "module", DefaultScene>>
TextureLoadOnInit == <<"TextureLoadOnInit", "textureloader", DefaultScene>>
QuitHandler == <<"QuitHandler", "engine", DefaultScene>>
ShaderLoader(tl, root) == <<"ShaderLoader", tl, root>>

\* faulty variant: the renderer attached ahead of the frame
AttachModulesRendererFirst == <<RendererL, Frame, Input>>

\* Attach(*frame); Attach(*renderer); Attach(*input) on one engine event
AttachModules == <<Frame, RendererL, Input>>

\* ---- helpers ----
RECURSIVE SelectModules(_)
SelectModules(ls) ==
    IF ls = <<>> THEN <<>>
    ELSE IF Head(ls)[2] = "module"
         THEN <<Head(ls)>> \o SelectModules(Tail(ls))
         ELSE SelectModules(Tail(ls))

RECURSIVE SelectShaderLoaders(_)
SelectShaderLoaders(ls) ==
    IF ls = <<>> THEN <<>>
    ELSE IF Head(ls)[1] = "ShaderLoader"
         THEN <<Head(ls)>> \o SelectShaderLoaders(Tail(ls))
         ELSE SelectShaderLoaders(Tail(ls))

\* the smallest number outside the set used
FreshId(used) == CHOOSE n \in 0..Cardinality(used) :
                    n \notin used /\ \A m \in 0..(n - 1) : m \in used

\* new Frustum(cam)
NewFrustum(cam) == [cam |-> cam, alive |-> TRUE, clipping |-> FALSE]

\* delete frustum: the object is gone, its fields with it
DeleteFrustum(f) == [cam |-> <<"freed", 0>>, alive |-> FALSE, clipping |-> FALSE]

FrustumNode(f) == <<"FrustumNode", f>>

RECURSIVE AllNodes(_, _)
AllNodes(nodes, ss) ==
    IF ss = <<>> THEN <<>> ELSE nodes[Head(ss)] \o AllNodes(nodes, Tail(ss))

RECURSIVE SeqRange(_)
SeqRange(q) == IF q = <<>> THEN {} ELSE {Head(q)} \cup SeqRange(Tail(q))

\* the Frustums whose node some scene of nodes holds
NodeFrustums(nodes) ==
    {n[2] : n \in {m \in SeqRange(AllNodes(nodes, SceneList)) : m[1] = "FrustumNode"}}

\* faulty variant: the Frustum built around the camera being replaced
FrustumHeapStale(heap, nodes, old, n, cam) ==
    LET freed == [f \in DOMAIN heap |-> IF f = old THEN DeleteFrustum(heap[f]) ELSE heap[f]]
        keep == {f \in DOMAIN heap : freed[f].alive \/ f \in NodeFrustums(nodes)}
    IN [f \in (keep \cup {n}) |-> IF f = n THEN NewFrustum(heap[old].cam) ELSE freed[f]]

\* the heap after delete old; new Frustum(cam): the new object at number n
\* and the freed ones no scene refers to forgotten
FrustumHeap(heap, nodes, old, n, cam) ==
    LET freed == [f \in DOMAIN heap |-> IF f = old THEN DeleteFrustum(heap[f]) ELSE heap[f]]
        keep == {f \in DOMAIN heap : freed[f].alive \/ f \in NodeFrustums(nodes)}
    IN [f \in (keep \cup {n}) |-> IF f = n THEN NewFrustum(cam) ELSE freed[f]]

LiveFrustums == {f \in DOMAIN frustums : frustums[f].alive}

RECURSIVE CountDebugNodes(_)
CountDebugNodes(ns) ==
    IF ns = <<>> THEN 0
    ELSE (IF Head(ns)[1] = "FrustumNode" THEN 1 ELSE 0) + CountDebugNodes(Tail(ns))

TotalDebugNodes == CountDebugNodes(AllNodes(sceneNodes, SceneList))

\* ---- construction ----
Init ==
    /\ scene = DefaultScene
    /\ camera = DefaultCamera
    /\ frustum = 0
    /\ frustums = [f \in {0} |-> NewFrustum(DefaultCamera)]
    /\ heapCams = [c \in {DefaultCamera} |-> DefaultVolume]
    /\ viewportVol = <<"Frustum", <<"facade", 0>>>>
    /\ rendererRoot = DefaultScene
    /\ sceneNodes = [s \in Scenes |-> IF s = DefaultScene THEN <<LightNode>> ELSE <<>>]
    /\ initListeners = AttachModules
    /\ procListeners = AttachModules
    /\ deinitListeners = AttachModules
    /\ rInitListeners = <<TextureLoadOnInit>>
    /\ keyListeners = <<QuitHandler>>
    /\ dataDirs = {}
    /\ enginePhase = "constructed"
    /\ running = FALSE
    /\ installed = <<"ctor", DefaultCamera>>
    /\ setSceneArgs = <<>>
    /\ lastOp = <<"SimpleSetup", DefaultScene>>
    /\ callTrace = <<>>

\* ---- SimpleSetup::SetScene(ISceneNode& scene) ----
\* faulty variant: the renderer keeps its old root
SetSceneRootForgotten(root) == rendererRoot

\* renderer->SetSceneRoot(this->scene)
SetSceneRoot(root) == root

\* faulty variant: one shader loader, replaced by each call
AttachShaderLoaderReplacing(ls, root) ==
    SubSeq(ls, 1, 3) \o <<ShaderLoader("textureloader", root)>>

\* faulty variant: the shader loader put ahead of the listeners already attached
AttachShaderLoaderFirst(ls, root) == <<ShaderLoader("textureloader", root)>> \o ls

\* engine->InitializeEvent().Attach(*new ShaderLoader(*textureloader, scene))
AttachShaderLoader(ls, root) == Append(ls, ShaderLoader("textureloader", root))

\* faulty variant: textures left to the renderer's initialize event
SetSceneCallsDeferred(root) ==
    << <<"SetSceneRoot", root>>, <<"Attach", root>> >>

\* the collaborator calls of SetScene, in statement order
SetSceneCalls(root) ==
    << <<"SetSceneRoot", root>>, <<"Load", root>>, <<"Attach", root>> >>

SetScene(root) ==
    /\ Len(SelectShaderLoaders(initListeners)) < MaxSetScene
    /\ scene' = root
    /\ rendererRoot' = SetSceneRoot(root)
    /\ initListeners' = AttachShaderLoader(initListeners, root)
    /\ setSceneArgs' = Append(setSceneArgs, root)
    /\ lastOp' = <<"SetScene", root>>
    /\ callTrace' = SetSceneCalls(root)
    /\ UNCHANGED <<camera, frustum, frustums, heapCams, viewportVol,
                   sceneNodes, procListeners, deinitListeners,
                   rInitListeners, keyListeners, dataDirs, enginePhase,
                   running, installed>>

\* ---- SimpleSetup::SetCamera(Camera& volume) ----
\* heap Cameras some pointer of the facade still holds once cam is the camera
HeldCameras(cam, heap) ==
    {c \in DOMAIN heapCams : c = cam \/ \E f \in DOMAIN heap : heap[f].alive /\ heap[f].cam = c}

\* the number new Frustum gets after delete old
NewFrustumId(old) ==
    FreshId((DOMAIN frustums \ {old}) \cup (NodeFrustums(sceneNodes) \cap {old}))

SetCameraCam(c) ==
    LET n == NewFrustumId(frustum)
        heap == FrustumHeap(frustums, sceneNodes, frustum, n, c)
    IN
    /\ camera' = c
    /\ frustums' = heap
    /\ frustum' = n
    /\ viewportVol' = <<"Frustum", <<"facade", n>>>>
    /\ heapCams' = [h \in HeldCameras(c, heap) |-> heapCams[h]]
    /\ installed' = <<"cam", c>>
    /\ lastOp' = <<"SetCameraCam", c>>
    /\ callTrace' = << <<"delete Frustum", <<"facade", frustum>>>>,
                       <<"new Frustum", <<"facade", n>>>>,
                       <<"SetViewingVolume", <<"facade", n>>>> >>
    /\ UNCHANGED <<setSceneArgs, scene, rendererRoot, sceneNodes, initListeners,
                   procListeners, deinitListeners, rInitListeners,
                   keyListeners, dataDirs, enginePhase, running>>

\* ---- SimpleSetup::SetCamera(IViewingVolume& volume) ----
\* faulty variant: the viewport left on its old provider
CameraViewingVolumeForgotten(n) == viewportVol

\* faulty variant: the viewport bound to the facade's Frustum, as in SetCamera(Camera&)
CameraViewingVolumeFrustum(n) == <<"Frustum", <<"facade", frustum>>>>

\* viewport->SetViewingVolume(camera)
CameraViewingVolume(n) == <<"Camera", n>>

\* new Camera(volume)
NewCamera == <<"facade", FreshId({c[2] : c \in DOMAIN heapCams})>>

SetCameraVol(v) ==
    LET n == NewCamera
        cams == [c \in DOMAIN heapCams \cup {n} |-> IF c = n THEN v ELSE heapCams[c]]
    IN
    /\ camera' = n
    /\ heapCams' = [h \in {c \in DOMAIN cams : c = n \/ \E f \in DOMAIN frustums :
                                 frustums[f].alive /\ frustums[f].cam = c} |-> cams[h]]
    /\ viewportVol' = CameraViewingVolume(n)
    /\ installed' = <<"vol", v>>
    /\ lastOp' = <<"SetCameraVol", v>>
    /\ callTrace' = << <<"new Camera", n>>,
                       <<"SetViewingVolume", n>> >>
    /\ UNCHANGED <<setSceneArgs, scene, frustum, frustums, rendererRoot, sceneNodes,
                   initListeners, procListeners, deinitListeners,
                   rInitListeners, keyListeners, dataDirs, enginePhase,
                   running>>

\* ---- SimpleSetup::AddDataDirectory(string dir) ----
AddDataDirectory(dir) ==
    /\ dataDirs' = dataDirs \cup {dir}
    /\ lastOp' = <<"AddDataDirectory", <<dir, 0>>>>
    /\ callTrace' = << <<"AppendPath", <<dir, 0>>>> >>
    /\ UNCHANGED <<setSceneArgs, scene, camera, frustum, frustums, heapCams, viewportVol,
                   rendererRoot, sceneNodes, initListeners, procListeners,
                   deinitListeners, rInitListeners, keyListeners,
                   enginePhase, running, installed>>

\* ---- SimpleSetup::EnableDebugging() ----
\* faulty variant: the graph written and reported without the else
DotOutputNoElse(good, root) ==
    (IF ~good THEN << <<"logger.error", <<"scene.dot", 0>>>> >> ELSE <<>>) \o
    << <<"dot.Write", root>>,
       <<"logger.info", <<"scene.dot", 0>>>>,
       <<"logger.info", <<"scene.svg", 0>>>> >>

\* good: whether ofstream("scene.dot") opened
DotOutput(good, root) ==
    IF ~good
    THEN << <<"logger.error", <<"scene.dot", 0>>>> >>
    ELSE << <<"dot.Write", root>>,
            <<"logger.info", <<"scene.dot", 0>>>>,
            <<"logger.info", <<"scene.svg", 0>>>> >>

\* faulty variant: a node already in the scene is not added again
AddNodeOnce(nodes, n) == IF n \in SeqRange(nodes) THEN nodes ELSE Append(nodes, n)

\* scene->AddNode(node)
AddNode(nodes, n) == Append(nodes, n)

EnableDebugging(good) ==
    /\ TotalDebugNodes < MaxDebug
    /\ frustums' = [frustums EXCEPT ![frustum].clipping = TRUE]
    /\ sceneNodes' = [sceneNodes EXCEPT ![scene] = AddNode(@, FrustumNode(frustum))]
    /\ lastOp' = <<"EnableDebugging", <<"scene.dot", IF good THEN 1 ELSE 0>>>>
    /\ callTrace' = << <<"VisualizeClipping", <<"facade", frustum>>>>,
                       <<"AddNode", scene>> >> \o DotOutput(good, scene)
    /\ UNCHANGED <<setSceneArgs, scene, camera, frustum, heapCams, viewportVol,
                   rendererRoot, initListeners, procListeners,
                   deinitListeners, rInitListeners, keyListeners, dataDirs,
                   enginePhase, running, installed>>

\* ---- listeners' handlers ----
\* faulty variant: the scene root loaded without the NULL test
TextureLoadOnInitHandleUnchecked(root) == << <<"Load", root>> >>

\* TextureLoadOnInit::Handle(RenderingEventArg)
TextureLoadOnInitHandle(root) ==
    IF root # NullScene THEN << <<"Load", root>> >> ELSE <<>>

\* faulty variant: any key stops the engine
QuitHandlerHandleAnyKey(sym) == << <<"engine.Stop", <<"engine", 0>>>> >>

\* QuitHandler::Handle(KeyboardEventArg)
QuitHandlerHandle(sym) ==
    IF sym = KEY_ESCAPE THEN << <<"engine.Stop", <<"engine", 0>>>> >> ELSE <<>>

RECURSIVE NotifyRenderingInit(_, _)
NotifyRenderingInit(ls, root) ==
    IF ls = <<>> THEN <<>>
    ELSE TextureLoadOnInitHandle(root) \o NotifyRenderingInit(Tail(ls), root)

RECURSIVE NotifyKey(_, _)
NotifyKey(ls, sym) ==
    IF ls = <<>> THEN <<>>
    ELSE QuitHandlerHandle(sym) \o NotifyKey(Tail(ls), sym)

\* one engine listener's Handle for the given phase
HandlePhase(l, phase) ==
    IF l[1] = "ShaderLoader"
    THEN << <<"ShaderLoader.Handle", l[3]>> >>
    ELSE << <<l[1], <<phase, 0>>>> >> \o
         (IF l = RendererL /\ phase = "Initialize"
          THEN NotifyRenderingInit(rInitListeners, rendererRoot)
          ELSE <<>>)

\* Event::Notify: every listener, in attachment order
RECURSIVE Notify(_, _)
Notify(ls, phase) ==
    IF ls = <<>> THEN <<>>
    ELSE HandlePhase(Head(ls), phase) \o Notify(Tail(ls), phase)

\* ---- the input device, polled while the engine processes, fires a key event ----
KeyEvent(sym) ==
    /\ enginePhase = "started"
    /\ running
    /\ callTrace' = NotifyKey(keyListeners, sym)
    /\ running' = IF NotifyKey(keyListeners, sym) # <<>> THEN FALSE ELSE running
    /\ lastOp' = <<"KeyEvent", <<sym, 0>>>>
    /\ UNCHANGED <<setSceneArgs, scene, camera, frustum, frustums, heapCams, viewportVol,
                   rendererRoot, sceneNodes, initListeners, procListeners,
                   deinitListeners, rInitListeners, keyListeners, dataDirs,
                   enginePhase, installed>>

\* ---- the engine's driver: Initialize, Process..., Deinitialize ----
FireInitialize ==
    /\ enginePhase = "constructed"
    /\ enginePhase' = "started"
    /\ running' = TRUE
    /\ callTrace' = Notify(initListeners, "Initialize")
    /\ lastOp' = <<"Fire", <<"Initialize", 0>>>>
    /\ UNCHANGED <<setSceneArgs, scene, camera, frustum, frustums, heapCams, viewportVol,
                   rendererRoot, sceneNodes, initListeners, procListeners,
                   deinitListeners, rInitListeners, keyListeners, dataDirs,
                   installed>>

FireProcess ==
    /\ enginePhase = "started"
    /\ running
    /\ enginePhase' = "started"
    /\ callTrace' = Notify(procListeners, "Process")
    /\ lastOp' = <<"Fire", <<"Process", 0>>>>
    /\ UNCHANGED <<setSceneArgs, scene, camera, frustum, frustums, heapCams, viewportVol,
                   rendererRoot, sceneNodes, initListeners, procListeners,
                   deinitListeners, rInitListeners, keyListeners, dataDirs,
                   running, installed>>

FireDeinitialize ==
    /\ enginePhase = "started"
    /\ ~running
    /\ enginePhase' = "deinitialized"
    /\ callTrace' = Notify(deinitListeners, "Deinitialize")
    /\ lastOp' = <<"Fire", <<"Deinitialize", 0>>>>
    /\ UNCHANGED <<setSceneArgs, scene, camera, frustum, frustums, heapCams, viewportVol,
                   rendererRoot, sceneNodes, initListeners, procListeners,
                   deinitListeners, rInitListeners, keyListeners, dataDirs,
                   running, installed>>

\* cameras the caller can pass by reference: its own and any GetCamera() returned
KnownCameras == CallerCameras \cup DOMAIN heapCams

Next ==
    \/ \E root \in Scenes : SetScene(root)
    \/ \E c \in KnownCameras : SetCameraCam(c)
    \/ \E v \in CallerVolumes : SetCameraVol(v)
    \/ \E dir \in Dirs : AddDataDirectory(dir)
    \/ \E good \in BOOLEAN : EnableDebugging(good)
    \/ \E sym \in Keys : KeyEvent(sym)
    \/ FireInitialize
    \/ FireProcess
    \/ FireDeinitialize

Spec == Init /\ [][Next]_vars

\* ---- the engine started: Initialize once, Process while running, Deinitialize ----
\* GetEngine().Start() carries each of its phases out once that phase is due
SpecDriver ==
    /\ Init
    /\ [][Next]_vars
    /\ WF_vars(FireInitialize)
    /\ WF_vars(FireProcess)
    /\ WF_vars(FireDeinitialize)

\* ---- the caller rebinds the renderer it got from GetRenderer() ----
\* GetRenderer().SetSceneRoot(root), root possibly NULL
RendererSetSceneRoot(root) ==
    /\ rendererRoot' = root
    /\ lastOp' = <<"Renderer.SetSceneRoot", root>>
    /\ callTrace' = <<>>
    /\ UNCHANGED <<scene, camera, frustum, frustums, heapCams, viewportVol,
                   sceneNodes, initListeners, procListeners, deinitListeners,
                   rInitListeners, keyListeners, dataDirs, enginePhase,
                   running, installed, setSceneArgs>>

\* scene replacement, direct rebinding of the renderer, and the engine's run
NextPreload ==
    \/ \E root \in Scenes : SetScene(root)
    \/ \E root \in Scenes \cup {NullScene} : RendererSetSceneRoot(root)
    \/ \E sym \in Keys : KeyEvent(sym)
    \/ FireInitialize
    \/ FireProcess
    \/ FireDeinitialize

SpecPreload == Init /\ [][NextPreload]_vars

(***************************************************************************)
(* Properties                                                              *)
(***************************************************************************)
AnySetScene == \E root \in Scenes : SetScene(root)
AnySetCameraCam == \E c \in KnownCameras : SetCameraCam(c)
AnySetCameraVol == \E v \in CallerVolumes : SetCameraVol(v)
AnyEnableDebugging == \E good \in BOOLEAN : EnableDebugging(good)

RECURSIVE CountCalls(_, _)
CountCalls(trace, name) ==
    IF trace = <<>> THEN 0
    ELSE (IF Head(trace)[1] = name THEN 1 ELSE 0) + CountCalls(Tail(trace), name)

RECURSIVE SelectCalls(_, _)
SelectCalls(trace, names) ==
    IF trace = <<>> THEN <<>>
    ELSE (IF Head(trace)[1] \in names THEN <<Head(trace)>> ELSE <<>>)
         \o SelectCalls(Tail(trace), names)

\* C1: the viewport's one viewing-volume provider is the most recently
\* installed one: the live Frustum around the camera of the last
\* SetCamera(Camera&) (the constructor's Frustum if there was no replacement),
\* or the Camera made by the last SetCamera(IViewingVolume&) around its
\* volume; GetCamera() returns the camera of that last call.
SingleActiveBinding ==
    /\ installed[1] \in {"ctor", "cam"} =>
          /\ viewportVol = <<"Frustum", <<"facade", frustum>>>>
          /\ frustum \in DOMAIN frustums
          /\ frustums[frustum].alive
          /\ frustums[frustum].cam = installed[2]
          /\ camera = installed[2]
    /\ installed[1] = "vol" =>
          /\ viewportVol = <<"Camera", camera>>
          /\ camera \in DOMAIN heapCams
          /\ heapCams[camera] = installed[2]

\* a by-volume replacement made after a by-camera replacement
SingleActiveBindingWitness ==
    /\ installed[1] = "vol"
    /\ frustums[frustum].cam \in CallerCameras
    /\ viewportVol = <<"Camera", camera>>

\* C2: the facade holds exactly one live Frustum and it wraps the camera
\* GetCamera() returns.
OneFrustumPerActiveCamera ==
    /\ Cardinality(LiveFrustums) = 1
    /\ frustum \in LiveFrustums
    /\ frustums[frustum].cam = camera

\* C3: the renderer's scene root is the facade's current scene: the default
\* scene until SetScene is called, the argument of the last SetScene call
\* afterwards, whatever camera and debugging calls come in between.
RendererRendersCurrentScene ==
    /\ rendererRoot = scene
    /\ scene = IF setSceneArgs = <<>> THEN DefaultScene
               ELSE setSceneArgs[Len(setSceneArgs)]

\* a camera replacement after a scene replacement
RendererRendersCurrentSceneWitness ==
    /\ rendererRoot \in CallerScenes
    /\ lastOp[1] \in {"SetCameraCam", "SetCameraVol", "EnableDebugging"}

\* C4: frame, renderer and input are attached to each of the engine's
\* Initialize, Process and Deinitialize events exactly once, in that order,
\* and a firing of any of the three notifies frame, renderer, input in that
\* order.
ModulesAttachedOnceInOrder ==
    /\ SelectModules(initListeners) = <<Frame, RendererL, Input>>
    /\ SelectModules(procListeners) = <<Frame, RendererL, Input>>
    /\ SelectModules(deinitListeners) = <<Frame, RendererL, Input>>
    /\ lastOp[1] = "Fire" =>
          SelectCalls(callTrace, {"frame", "renderer", "input"}) =
              << <<"frame", lastOp[2]>>, <<"renderer", lastOp[2]>>, <<"input", lastOp[2]>> >>

\* the Initialize event fired after every kind of mutator has run
ModulesAttachedOnceInOrderWitness ==
    /\ lastOp = <<"Fire", <<"Initialize", 0>>>>
    /\ Len(initListeners) > 3
    /\ dataDirs # {}
    /\ installed[1] # "ctor"
    /\ TotalDebugNodes > 0

\* the calls of the last operation that destroy an object other than a Frustum
DestroysForeign(trace) ==
    \E i \in 1..Len(trace) :
        /\ trace[i][1] \in {"delete Camera", "delete Scene", "delete Volume"}

\* C5 as stated: SetScene and SetCamera(Camera&) destroy only the facade's
\* old Frustum, and after SetCamera(Camera&) neither the camera field, the
\* Frustum nor the viewport refers to the camera that was active before.
OwnershipNonDestruction ==
    [][/\ AnySetScene => /\ ~DestroysForeign(callTrace')
                         /\ CountCalls(callTrace', "delete Frustum") = 0
                         /\ sceneNodes' = sceneNodes
       /\ AnySetCameraCam =>
             /\ ~DestroysForeign(callTrace')
             /\ SelectCalls(callTrace', {"delete Frustum"}) =
                    << <<"delete Frustum", <<"facade", frustum>>>> >>
             /\ camera' # camera
             /\ frustums'[frustum'].cam # camera
             /\ viewportVol' # <<"Camera", camera>>]_vars

\* C5 amended: the same, the old camera being unreferenced unless it is the
\* camera passed in.
OwnershipNonDestructionUnlessSame ==
    [][/\ AnySetScene => /\ ~DestroysForeign(callTrace')
                         /\ CountCalls(callTrace', "delete Frustum") = 0
                         /\ sceneNodes' = sceneNodes
       /\ AnySetCameraCam =>
             /\ ~DestroysForeign(callTrace')
             /\ SelectCalls(callTrace', {"delete Frustum"}) =
                    << <<"delete Frustum", <<"facade", frustum>>>> >>
             /\ camera' # camera =>
                   /\ frustums'[frustum'].cam # camera
                   /\ viewportVol' # <<"Camera", camera>>
                   /\ camera \notin DOMAIN heapCams']_vars

\* SetCamera(Camera&) replaced a facade-made camera by a caller's: no pointer
\* of the facade holds a facade-made camera any more
OwnershipNonDestructionWitness ==
    /\ lastOp[1] = "SetCameraCam"
    /\ camera \in CallerCameras
    /\ DOMAIN heapCams = {}

\* C6: SetScene(root) loads root's textures inside the call, after the
\* renderer is rebound to root, whether or not Initialize has fired.
TextureEagerLoad ==
    lastOp[1] = "SetScene" =>
        \E i, j \in 1..Len(callTrace) :
            /\ i < j
            /\ callTrace[i] = <<"SetSceneRoot", lastOp[2]>>
            /\ callTrace[j] = <<"Load", lastOp[2]>>
            /\ rendererRoot = lastOp[2]

\* SetScene called once the engine has fired Initialize
TextureEagerLoadWitness ==
    /\ lastOp[1] = "SetScene"
    /\ enginePhase = "started"
    /\ CountCalls(callTrace, "Load") = 1

\* C7: after k SetScene calls exactly k shader loaders are attached to the
\* engine's Initialize event, after the three modules, the i-th bound to the
\* texture loader and to the root of the i-th call.
ShaderLoaderAccumulation ==
    /\ Len(SelectShaderLoaders(initListeners)) = Len(setSceneArgs)
    /\ Len(initListeners) = 3 + Len(setSceneArgs)
    /\ \A i \in 1..Len(setSceneArgs) :
          initListeners[3 + i] = <<"ShaderLoader", "textureloader", setSceneArgs[i]>>

\* two SetScene calls, the first one's root no longer the scene
ShaderLoaderAccumulationWitness ==
    /\ Len(setSceneArgs) = 2
    /\ setSceneArgs[1] # scene
    /\ initListeners[4][3] = setSceneArgs[1]

\* C8: SetCamera(IViewingVolume& v) makes a new Camera around v the camera,
\* binds the viewport to that Camera, and neither makes nor destroys a
\* Frustum; the frustum field, the scene binding and the listeners stay.
ViewingVolumeAsymmetry ==
    [][\A v \in CallerVolumes : SetCameraVol(v) =>
          /\ camera' \notin DOMAIN heapCams
          /\ camera' \notin CallerCameras
          /\ heapCams'[camera'] = v
          /\ viewportVol' = <<"Camera", camera'>>
          /\ CountCalls(callTrace', "new Camera") = 1
          /\ CountCalls(callTrace', "new Frustum") = 0
          /\ CountCalls(callTrace', "delete Frustum") = 0
          /\ frustum' = frustum
          /\ frustums' = frustums
          /\ UNCHANGED <<scene, rendererRoot, sceneNodes, initListeners,
                         procListeners, deinitListeners, rInitListeners,
                         keyListeners>>]_vars

\* after SetCamera(IViewingVolume&) the Frustum is still the one around the
\* camera of an earlier SetCamera(Camera&)
ViewingVolumeAsymmetryWitness ==
    /\ lastOp[1] = "SetCameraVol"
    /\ viewportVol = <<"Camera", camera>>
    /\ frustums[frustum].alive
    /\ frustums[frustum].cam # camera
    /\ frustum # 0

\* C9: one quit listener is attached to the key event throughout; a key
\* event with escape makes one Stop request, any other key none.
QuitWiring ==
    /\ keyListeners = <<QuitHandler>>
    /\ lastOp[1] = "KeyEvent" =>
          CountCalls(callTrace, "engine.Stop") =
              (IF lastOp[2][1] = KEY_ESCAPE THEN 1 ELSE 0)

\* escape pressed while the engine runs, after a SetScene: the engine stops
QuitWiringWitness ==
    /\ lastOp = <<"KeyEvent", <<KEY_ESCAPE, 0>>>>
    /\ CountCalls(callTrace, "engine.Stop") = 1
    /\ ~running
    /\ setSceneArgs # <<>>

\* C10: each EnableDebugging call adds one debug node to the active scene.
DebugNonIdempotence ==
    [][AnyEnableDebugging =>
          CountDebugNodes(sceneNodes'[scene]) = CountDebugNodes(sceneNodes[scene]) + 1]_vars

\* two calls in a row: the live Frustum's node is in the scene twice
DebugNonIdempotenceWitness ==
    /\ lastOp[1] = "EnableDebugging"
    /\ \E i, j \in 1..Len(sceneNodes[scene]) :
          /\ i < j
          /\ sceneNodes[scene][i] = FrustumNode(frustum)
          /\ sceneNodes[scene][j] = FrustumNode(frustum)

\* C11: when scene.dot cannot be opened EnableDebugging has still switched
\* on the Frustum's clip-plane visualization and added its node to the
\* active scene, logs one error and no information, and writes no graph;
\* when the file opens the graph of the scene is written and information,
\* no error, is logged.
DebugFileFailureRecoverable ==
    lastOp[1] = "EnableDebugging" =>
        /\ frustums[frustum].clipping
        /\ sceneNodes[scene] # <<>>
        /\ sceneNodes[scene][Len(sceneNodes[scene])] = FrustumNode(frustum)
        /\ callTrace[1] = <<"VisualizeClipping", <<"facade", frustum>>>>
        /\ callTrace[2] = <<"AddNode", scene>>
        /\ lastOp[2][2] = 0 =>
              /\ CountCalls(callTrace, "logger.error") = 1
              /\ CountCalls(callTrace, "logger.info") = 0
              /\ CountCalls(callTrace, "dot.Write") = 0
        /\ lastOp[2][2] = 1 =>
              /\ CountCalls(callTrace, "logger.error") = 0
              /\ CountCalls(callTrace, "logger.info") >= 1
              /\ SelectCalls(callTrace, {"dot.Write"}) = << <<"dot.Write", scene>> >>

\* the file failed to open on a call made after a camera replacement
DebugFileFailureRecoverableWitness ==
    /\ lastOp = <<"EnableDebugging", <<"scene.dot", 0>>>>
    /\ CountCalls(callTrace, "logger.error") = 1
    /\ frustums[frustum].clipping
    /\ FrustumNode(frustum) \in SeqRange(sceneNodes[scene])
    /\ installed[1] = "cam"

\* C12: one texture-preload listener is attached to the renderer's
\* Initialize event; when the event fires it loads the textures of the root
\* the renderer holds at that moment (the argument of the last SetScene
\* unless the renderer was rebound since), and loads nothing when that root
\* is NULL.
TexturePreloadOnInit ==
    /\ rInitListeners = <<TextureLoadOnInit>>
    /\ lastOp = <<"Fire", <<"Initialize", 0>>>> =>
          /\ SelectCalls(callTrace, {"Load"}) =
                 (IF rendererRoot # NullScene
                  THEN << <<"Load", rendererRoot>> >> ELSE <<>>)
          /\ (setSceneArgs # <<>> /\ rendererRoot = scene) =>
                 <<"Load", setSceneArgs[Len(setSceneArgs)]>> \in SeqRange(callTrace)

\* Initialize fired after the scene was replaced: the new scene is loaded,
\* not the constructor's
TexturePreloadOnInitWitness ==
    /\ lastOp = <<"Fire", <<"Initialize", 0>>>>
    /\ setSceneArgs # <<>>
    /\ rendererRoot \in CallerScenes
    /\ SelectCalls(callTrace, {"Load"}) = << <<"Load", rendererRoot>> >>

\* Initialize fired while the renderer holds no scene root: nothing loaded
TexturePreloadNullRootReached ==
    /\ lastOp = <<"Fire", <<"Initialize", 0>>>>
    /\ rendererRoot = NullScene
    /\ CountCalls(callTrace, "Load") = 0

\* C13: every debug node EnableDebugging added to a scene is the node of a
\* Frustum that is still alive.
NoDanglingDebugNode ==
    \A s \in Scenes : \A i \in 1..Len(sceneNodes[s]) :
        sceneNodes[s][i][1] = "FrustumNode" =>
            /\ sceneNodes[s][i][2] \in DOMAIN frustums
            /\ frustums[sceneNodes[s][i][2]].alive

\* C14: a firing of the engine's Initialize event runs frame, renderer (which
\* fires the texture preload), input, and then the shader loaders in the
\* order of the SetScene calls that attached them.
InitializeFanOutOrder ==
    lastOp = <<"Fire", <<"Initialize", 0>>>> =>
        callTrace =
            << <<"frame", <<"Initialize", 0>>>>,
               <<"renderer", <<"Initialize", 0>>>>,
               <<"Load", rendererRoot>>,
               <<"input", <<"Initialize", 0>>>> >>
            \o [i \in 1..Len(setSceneArgs) |-> <<"ShaderLoader.Handle", setSceneArgs[i]>>]

\* Initialize fired with the shader loaders of two different scenes attached
InitializeFanOutOrderWitness ==
    /\ lastOp = <<"Fire", <<"Initialize", 0>>>>
    /\ Len(setSceneArgs) = 2
    /\ setSceneArgs[1] # setSceneArgs[2]
    /\ Len(callTrace) = 6
    /\ callTrace[5] = <<"ShaderLoader.Handle", setSceneArgs[1]>>
    /\ callTrace[6] = <<"ShaderLoader.Handle", setSceneArgs[2]>>

\* C15: with the engine started, the shader loader of every SetScene call
\* made before the run has ended is eventually notified.
ShaderLoaderEventuallyInvoked ==
    \A r \in Scenes :
        (lastOp = <<"SetScene", r>> /\ enginePhase # "deinitialized")
        ~> (/\ lastOp = <<"Fire", <<"Initialize", 0>>>>
            /\ <<"ShaderLoader.Handle", r>> \in SeqRange(callTrace))
====
